---- MODULE Spec2Model ----
(***************************************************************************)
(* RHEL-on-QEMU automation: the install monitor (QemuGenerator.run_install *)
(* and debug_snapshot), the post-install configurator (SSHConfigurator)    *)
(* and the part of main() that drives them.                                *)
(*                                                                         *)
(* Conventions.  A Python value that may be None is a sequence: <<>> is    *)
(* None and <<v>> is the value v.  Clock readings are seconds since        *)
(* start_time.  The program is one thread; `pc` is its position.  The      *)
(* install subprocess, the post-install VM and the remote commands are the *)
(* environment and move on their own.                                      *)
(***************************************************************************)
EXTENDS Integers, Sequences, FiniteSets, TLC

VARIABLES
    pc,               \* position of the single thread of control
    exc,              \* exception propagating out of the current call, or "none"
    exitStatus,       \* status the pipeline process ended with: <<>> while running
    \* ---- SSHConfigurator
    retries,          \* connect(retries=...)
    interval,         \* connect(interval=...)
    i,                \* loop variable of `for i in range(retries)`
    attempts,         \* ssh_client.connect calls made by the connect call in progress
    sleeps,           \* time.sleep(interval) calls made by it
    slept,            \* seconds it slept
    ssh_client,       \* "None" | "created" | "connected" | "closed"
    connectRet,       \* return value of connect: <<>> | <<TRUE>> | <<FALSE>>
    sub_user,         \* configure_system's local, read from the configuration
    sub_pass,         \* configure_system's local, read from the configuration
    cur,              \* command being run by execute_command
    issued,           \* commands handed to exec_command, in order
    running,          \* remote commands started and not yet exited
    chan_status,      \* exit status delivered on the current channel: <<>> | <<s>>
    failed,           \* commands execute_command reported as [Error]
    verifyStatus,     \* exit status the verification command returned: <<>> | <<s>>
    closes,           \* ssh_client.close() calls made
    afterClose,       \* commands handed to exec_command after close()
    \* ---- post-install VM (main)
    vmState,          \* "none" | "running" | "exited"
    vmSignals,        \* signals main sent to the VM, in order
    \* ---- install session (QemuGenerator.run_install)
    spawns,           \* subprocess.Popen calls made by run_install
    procState,        \* install subprocess: "none" | "running" | "exited"
    procExit,         \* the code it exited with: <<>> | <<c>>
    returncode,       \* process.returncode as poll() last set it: <<>> | <<c>>
    installSignals,   \* signals the pipeline sent to the install subprocess
    written,          \* chunks the subprocess wrote to its stdout/stderr pipe
    pipe,             \* chunks written and not yet read
    sink,             \* chunks relayed to the terminal, in order
    now,              \* latest reading of time.time() - start_time
    last_status_time, \* last_status_time - start_time
    ssh_checked,      \* the diagnostic capture was attempted
    snapLog,          \* one record per debug_snapshot call
    sshCmd,           \* the sshpass/ssh child of debug_snapshot:
                      \* "none" | "connecting" | "running" | "ended"
    lastBeat,         \* elapsed as printed by the latest [STATUS] heartbeat, 0 before
    \* ---- execute_command's result
    execRet,          \* what execute_command returned last: <<>> | <<TRUE>> | <<FALSE>>
    report,           \* what it printed: "none" | "Success" | "Error" | "not connected"
    \* ---- main
    vmWait,           \* how proc.wait(timeout=10) ended: "none" | "returned" | "timeout"
    phases,           \* the phases of main started so far, in order
    failedPhase,      \* the phase whose failure ended the pipeline, or "none"
    toolStatus,       \* exit status of the external tool that failed: <<>> | <<c>>
    \* ---- the channel of the command execute_command waits for
    remoteLeft,       \* chunks of output the remote command has still to write
    chanBuf,          \* chunks received on the channel and not read yet
    \* ---- EFI/BOOT/grub.cfg of the image being remastered
    grub,             \* its lines, each a sequence of words
    grubPrev,         \* its lines before the latest patch
    grubPasses        \* how many times it has been patched

cfgVars  == <<retries, interval, i, attempts, sleeps, slept, ssh_client, connectRet,
              sub_user, sub_pass, cur, issued, running, chan_status, failed,
              verifyStatus, closes, afterClose>>
vmVars   == <<vmState, vmSignals>>
monVars  == <<spawns, procState, procExit, returncode, installSignals, written, pipe,
              sink, now, last_status_time, ssh_checked, snapLog>>
mainVars == <<phases, failedPhase, toolStatus>>
execVars == <<execRet, report>>
chanVars == <<remoteLeft, chanBuf>>
grubVars == <<grub, grubPrev, grubPasses>>
vars     == <<pc, exc, exitStatus, cfgVars, vmVars, monVars, mainVars, execVars,
              lastBeat, sshCmd, vmWait, chanVars, grubVars>>

----------------------------------------------------------------------------
(* Bounds of the model *)

\* largest retry count tried when connect is called on its own
MaxRetries == 4

\* five-minute periods the clock of an install session runs through
MaxPeriods == 7

\* chunks of output the install subprocess writes
MaxOutput == 2

\* seconds between the two readings of the clock at a heartbeat (lines 200, 203)
MaxPrintDelay == 1

\* chunks of output the channel of a remote command holds unread (the window of
\* the session, which paramiko stops granting when nothing is read)
MaxWindow == 1

\* chunks of output a remote command writes to stdout and stderr together
MaxRemoteOutput == 2

\* lines of a boot menu given to the patch
MaxLines == 4

\* times the patch is applied to one menu
MaxPasses == 2

(* Program constants *)

\* run_install: `>= 300` (status heartbeat) and `> 1800` (hang check)
HeartbeatInterval == 300
HangThreshold == 1800

\* def connect(self, retries=30, interval=5)
DefaultRetries == 30
DefaultInterval == 5

\* intervals tried when connect is called on its own
Intervals == {0, 1, DefaultInterval}

\* exit statuses a remote command may deliver; -1 is paramiko's "no status"
ExitStatuses == {0, 1, -1}

----------------------------------------------------------------------------
(* SSHConfigurator.connect *)

\* what one ssh_client.connect call can do: succeed, or raise one of these
ConnectErrors == {"BadHostKeyException", "AuthenticationException", "SSHException",
                  "ConnectionRefusedError", "OSError"}

\* except (BadHostKeyException, AuthenticationException, SSHException,
\*         ConnectionRefusedError)
ConnectCaught(e) ==
    e \in {"BadHostKeyException", "AuthenticationException", "SSHException",
           "ConnectionRefusedError"}

\* Mutant: one attempt too many (range(retries + 1)).
RangeHasNextOffByOne(k, n) == k < n + 1

\* `for i in range(retries)`: is there an iteration for loop count k
RangeHasNext(k, n) == k < n

\* Mutant: the loop goes on after a successful attempt.
AfterAttemptNoReturn(ok) == "conn_sleep"

\* where control goes after an attempt: `return True`, or the except clause
AfterAttempt(ok) == IF ok THEN "connect_ret" ELSE "conn_sleep"

\* lines 15-17
ConnectBegin ==
    /\ pc = "connect"
    /\ ssh_client' = "created"
    /\ i' = 0
    /\ pc' = "conn_loop"
    /\ UNCHANGED <<exc, exitStatus, retries, interval, attempts, sleeps, slept,
                   connectRet, sub_user, sub_pass, cur, issued, running,
                   chan_status, failed, closes, verifyStatus, afterClose, vmVars, monVars, mainVars, execVars, lastBeat, sshCmd, vmWait, chanVars, grubVars>>

\* line 19, and lines 35-36 when the range is exhausted
ConnectLoop ==
    /\ pc = "conn_loop"
    /\ IF RangeHasNext(i, retries)
         THEN /\ pc' = "conn_try"
              /\ UNCHANGED connectRet
         ELSE /\ connectRet' = <<FALSE>>
              /\ pc' = "connect_ret"
    /\ UNCHANGED <<exc, exitStatus, retries, interval, i, attempts, sleeps, slept,
                   ssh_client, sub_user, sub_pass, cur, issued, running,
                   chan_status, failed, closes, verifyStatus, afterClose, vmVars, monVars, mainVars, execVars, lastBeat, sshCmd, vmWait, chanVars, grubVars>>

\* lines 20-29: the attempt succeeds
ConnectTryOk ==
    /\ pc = "conn_try"
    /\ attempts' = attempts + 1
    /\ ssh_client' = "connected"
    /\ pc' = AfterAttempt(TRUE)
    /\ connectRet' = IF AfterAttempt(TRUE) = "connect_ret" THEN <<TRUE>> ELSE connectRet
    /\ UNCHANGED <<exc, exitStatus, retries, interval, i, sleeps, slept,
                   sub_user, sub_pass, cur, issued, running,
                   chan_status, failed, closes, verifyStatus, afterClose, vmVars, monVars, mainVars, execVars, lastBeat, sshCmd, vmWait, chanVars, grubVars>>

\* lines 20-32: the attempt raises e; caught by the except clause or propagated
ConnectTryFail ==
    /\ pc = "conn_try"
    /\ \E e \in ConnectErrors :
         /\ attempts' = attempts + 1
         /\ IF ConnectCaught(e)
              THEN /\ pc' = AfterAttempt(FALSE)
                   /\ UNCHANGED exc
              ELSE /\ pc' = "cfg_raised"
                   /\ exc' = e
    /\ UNCHANGED <<exitStatus, retries, interval, i, sleeps, slept, ssh_client,
                   connectRet, sub_user, sub_pass, cur, issued, running,
                   chan_status, failed, closes, verifyStatus, afterClose, vmVars, monVars, mainVars, execVars, lastBeat, sshCmd, vmWait, chanVars, grubVars>>

\* line 33, then the next iteration
ConnectSleep ==
    /\ pc = "conn_sleep"
    /\ sleeps' = sleeps + 1
    /\ slept' = slept + interval
    /\ i' = i + 1
    /\ pc' = "conn_loop"
    /\ UNCHANGED <<exc, exitStatus, retries, interval, attempts, ssh_client,
                   connectRet, sub_user, sub_pass, cur, issued, running,
                   chan_status, failed, closes, verifyStatus, afterClose, vmVars, monVars, mainVars, execVars, lastBeat, sshCmd, vmWait, chanVars, grubVars>>
----------------------------------------------------------------------------
(* SSHConfigurator.execute_command *)

\* Mutant: execute_command reads the exit status without waiting for it.
ExitStatusReadyNoWait(st) == TRUE

\* stdout.channel.recv_exit_status() blocks until the status has arrived
ExitStatusReady(st) == st # <<>>

\* the status recv_exit_status returns (paramiko's exit_status is -1 until set)
ExitStatusOf(st) == IF st = <<>> THEN -1 ELSE st[1]

\* Mutant: any status below 2 counts as success.
IsSuccessLax(status) == status < 2

\* line 49: if exit_status == 0
IsSuccess(status) == status = 0

\* the commands of configure_system in the order of its lines 68-96: registration,
\* dnf update, dnf install, systemctl enable --now nginx, the three firewall-cmd
\* calls, the landing page, the curl verification, podman --version
Order == <<"register", "update", "install", "nginx", "fw_http", "fw_https",
           "fw_reload", "landing", "verify", "podman">>

\* the place of a command in that order
Pos(c) == CHOOSE k \in 1..Len(Order) : Order[k] = c

\* the steps configure_system runs whatever the configuration and the results
Unconditional == {"update", "install", "nginx", "fw_http", "fw_https",
                  "fw_reload", "landing", "verify"}

\* Mutant: the sequence stops at the first failing step.
NextStepAbortOnFailure(c, ok) ==
    IF ~ok THEN "close"
    ELSE IF c = "podman" THEN "close"
    ELSE Order[Pos(c) + 1]

\* Mutant: the version report runs whatever the verification returned.
NextStepAlwaysPodman(c, ok) ==
    IF c = "podman" THEN "close" ELSE Order[Pos(c) + 1]

\* what configure_system does after execute_command(c) returned ok: lines 69-100.
\* Only the verification's result is looked at (line 94); "close" is line 100.
NextStep(c, ok) ==
    IF c = "verify" THEN (IF ok THEN "podman" ELSE "close")
    ELSE IF c = "podman" THEN "close"
    ELSE Order[Pos(c) + 1]

\* the remote side can send only while the window the client granted is not
\* used up; the client grants more only as the output is read (lines 46-47)
ChannelHasRoom(buf) == buf < MaxWindow

\* lines 39-44: exec_command starts the command on the session
ExecIssue ==
    /\ pc = "exec_issue"
    /\ ssh_client # "None"
    /\ issued' = Append(issued, cur)
    /\ afterClose' = IF ssh_client = "closed" THEN afterClose \cup {cur} ELSE afterClose
    /\ running' = running \cup {cur}
    /\ chan_status' = <<>>
    /\ execRet' = <<>>
    /\ report' = "none"
    /\ \E n \in 0..MaxRemoteOutput : remoteLeft' = n
    /\ chanBuf' = 0
    /\ pc' = "exec_wait"
    /\ UNCHANGED <<exc, exitStatus, retries, interval, i, attempts, sleeps, slept,
                   ssh_client, connectRet, sub_user, sub_pass, cur, failed, closes,
                   verifyStatus, vmVars, monVars, mainVars, lastBeat, sshCmd, vmWait, grubVars>>

\* lines 39-41: no session has been established; "Not connected." is printed and
\* False returned, nothing is sent.  The caller goes on with the result.
ExecNotConnected ==
    /\ pc = "exec_issue"
    /\ ssh_client = "None"
    /\ execRet' = <<FALSE>>
    /\ report' = "not connected"
    /\ failed' = failed \cup {cur}
    /\ IF NextStep(cur, FALSE) = "close"
         THEN /\ pc' = "cfg_close"
              /\ UNCHANGED cur
         ELSE /\ pc' = "exec_issue"
              /\ cur' = NextStep(cur, FALSE)
    /\ UNCHANGED <<exc, exitStatus, retries, interval, i, attempts, sleeps, slept,
                   ssh_client, connectRet, sub_user, sub_pass, issued, running,
                   chan_status, closes, verifyStatus, afterClose, vmVars, monVars,
                   mainVars, lastBeat, sshCmd, vmWait, chanVars, grubVars>>

\* line 44: exec_command raises (the session was lost)
ExecIssueRaises ==
    /\ pc = "exec_issue"
    /\ ssh_client # "None"
    /\ issued' = Append(issued, cur)
    /\ afterClose' = IF ssh_client = "closed" THEN afterClose \cup {cur} ELSE afterClose
    /\ exc' = "SSHException"
    /\ pc' = "cfg_raised"
    /\ UNCHANGED <<exitStatus, retries, interval, i, attempts, sleeps, slept,
                   ssh_client, connectRet, sub_user, sub_pass, cur, running,
                   chan_status, failed, closes, verifyStatus, vmVars, monVars, mainVars, execVars, lastBeat, sshCmd, vmWait, chanVars, grubVars>>

\* the remote side: the running command writes a chunk of output, which it can
\* only while the channel has room for it
RemoteWrite ==
    /\ cur \in running
    /\ remoteLeft > 0
    /\ ChannelHasRoom(chanBuf)
    /\ remoteLeft' = remoteLeft - 1
    /\ chanBuf' = chanBuf + 1
    /\ UNCHANGED <<pc, exc, exitStatus, cfgVars, vmVars, monVars, mainVars, execVars,
                   lastBeat, sshCmd, vmWait, grubVars>>

\* the remote side: a running command that has written all its output exits
\* with some status
RemoteExit ==
    /\ remoteLeft = 0
    /\ \E c \in running, s \in ExitStatuses :
         /\ running' = running \ {c}
         /\ chan_status' = IF c = cur THEN <<s>> ELSE chan_status
    /\ UNCHANGED <<pc, exc, exitStatus, retries, interval, i, attempts, sleeps, slept,
                   ssh_client, connectRet, sub_user, sub_pass, cur, issued, failed,
                   closes, verifyStatus, afterClose, vmVars, monVars, mainVars, execVars, lastBeat, sshCmd, vmWait, chanVars, grubVars>>

\* lines 45-58: wait for the exit status, read both streams, classify, and go on
\* in configure_system with the result
ExecCollect ==
    /\ pc = "exec_wait"
    /\ ExitStatusReady(chan_status)
    /\ LET ok == IsSuccess(ExitStatusOf(chan_status))
           nxt == NextStep(cur, ok)
       IN /\ chanBuf' = 0
          /\ execRet' = <<ok>>
          /\ report' = IF ok THEN "Success" ELSE "Error"
          /\ failed' = IF ok THEN failed ELSE failed \cup {cur}
          /\ verifyStatus' = IF cur = "verify" THEN <<ExitStatusOf(chan_status)>>
                                               ELSE verifyStatus
          /\ IF nxt = "close"
               THEN /\ pc' = "cfg_close"
                    /\ UNCHANGED cur
               ELSE /\ pc' = "exec_issue"
                    /\ cur' = nxt
    /\ UNCHANGED <<exc, exitStatus, retries, interval, i, attempts, sleeps, slept,
                   ssh_client, connectRet, sub_user, sub_pass, issued, running,
                   chan_status, closes, afterClose, vmVars, monVars, mainVars,
                   lastBeat, sshCmd, vmWait, remoteLeft, grubVars>>

\* lines 46-47: the captured output is not valid UTF-8 and decode() raises
ExecDecodeRaises ==
    /\ pc = "exec_wait"
    /\ ExitStatusReady(chan_status)
    /\ exc' = "UnicodeDecodeError"
    /\ chanBuf' = 0
    /\ pc' = "cfg_raised"
    /\ UNCHANGED <<exitStatus, retries, interval, i, attempts, sleeps, slept,
                   ssh_client, connectRet, sub_user, sub_pass, cur, issued, running,
                   chan_status, failed, closes, verifyStatus, afterClose, vmVars,
                   monVars, mainVars, execVars, lastBeat, sshCmd, vmWait, remoteLeft, grubVars>>

----------------------------------------------------------------------------
(* SSHConfigurator.configure_system *)

\* values config.get('subscription', {}).get(key) can have: absent (None), empty,
\* the placeholder of the sample configuration, or a real value
SubUsers == {<<>>, <<"">>, <<"CHANGE_ME">>, <<"rhuser">>}
SubPasswords == {<<>>, <<"">>, <<"CHANGE_ME">>, <<"secret">>}

\* Python truth of an optional string
Truthy(v) == v # <<>> /\ v[1] # ""

\* Mutant: the placeholder user name is not recognised.
ShouldRegisterNoSentinel(u, p) == Truthy(u) /\ Truthy(p)

\* line 67: if sub_user and sub_pass and sub_user != "CHANGE_ME"
ShouldRegister(u, p) == Truthy(u) /\ Truthy(p) /\ u # <<"CHANGE_ME">>

\* Mutant: configure_system goes on when connect returned False.
ProceedsAfterConnectAlways(ret) == TRUE

\* line 61: `if not self.connect(): return`
ProceedsAfterConnect(ret) == ret = <<TRUE>>

\* main line 151-152 and configure_system line 61: connect() with its defaults
ConfigureSystem ==
    /\ pc = "configure_system"
    /\ retries' = DefaultRetries
    /\ interval' = DefaultInterval
    /\ phases' = Append(phases, "configure")
    /\ pc' = "connect"
    /\ UNCHANGED <<exc, exitStatus, i, attempts, sleeps, slept, ssh_client,
                   connectRet, sub_user, sub_pass, cur, issued, running,
                   chan_status, failed, closes, verifyStatus, afterClose, vmVars,
                   monVars, failedPhase, toolStatus, execVars, lastBeat, sshCmd, vmWait, chanVars, grubVars>>

\* lines 61-62: connect returned False, configure_system returns.  The counters
\* of the connect call end with it.
CfgConnectFailed ==
    /\ pc = "connect_ret"
    /\ ~ProceedsAfterConnect(connectRet)
    /\ pc' = "cfg_ret"
    /\ i' = 0 /\ attempts' = 0 /\ sleeps' = 0 /\ slept' = 0
    /\ UNCHANGED <<exc, exitStatus, retries, interval, ssh_client, connectRet,
                   sub_user, sub_pass, cur, issued, running, chan_status, failed,
                   closes, verifyStatus, afterClose, vmVars, monVars, mainVars, execVars, lastBeat, sshCmd, vmWait, chanVars, grubVars>>

\* lines 64-72: the credentials are read from the configuration (which nothing
\* writes after load_config) and the subscription step is chosen or skipped;
\* line 74 follows a skip
CfgSubscription ==
    /\ pc = "connect_ret"
    /\ ProceedsAfterConnect(connectRet)
    /\ \E u \in SubUsers, p \in SubPasswords :
         /\ sub_user' = u
         /\ sub_pass' = p
         /\ cur' = IF ShouldRegister(u, p) THEN "register" ELSE "update"
    /\ pc' = "exec_issue"
    /\ i' = 0 /\ attempts' = 0 /\ sleeps' = 0 /\ slept' = 0
    /\ UNCHANGED <<exc, exitStatus, retries, interval, ssh_client, connectRet,
                   issued, running, chan_status, failed,
                   closes, verifyStatus, afterClose, vmVars, monVars, mainVars, execVars, lastBeat, sshCmd, vmWait, chanVars, grubVars>>

\* Mutant: the session is closed only when no step failed.
ClosesSessionOnSuccess(f) == f = {}

\* line 100 closes the session whatever the steps returned
ClosesSession(f) == TRUE

\* line 100: self.ssh_client.close(), and the return
CfgClose ==
    /\ pc = "cfg_close"
    /\ ssh_client' = IF ClosesSession(failed) THEN "closed" ELSE ssh_client
    /\ closes' = IF ClosesSession(failed) THEN closes + 1 ELSE closes
    /\ pc' = "cfg_ret"
    /\ UNCHANGED <<exc, exitStatus, retries, interval, i, attempts, sleeps, slept,
                   connectRet, sub_user, sub_pass, cur, issued, running,
                   chan_status, failed, verifyStatus, afterClose, vmVars, monVars, mainVars, execVars, lastBeat, sshCmd, vmWait, chanVars, grubVars>>

----------------------------------------------------------------------------
(* main, lines 146-161 *)

\* Mutant: a VM that outlives the wait is left alone.
AfterWaitNoKill(timedOut) == "finally_end"

\* lines 156-159: try: proc.wait(timeout=10) / except TimeoutExpired: proc.kill()
AfterWait(timedOut) == IF timedOut THEN "vm_kill" ELSE "finally_end"

\* lines 146-147, start_vm lines 243-247: Popen starts the VM
StartVm ==
    /\ pc = "start_vm"
    /\ vmState' = "running"
    /\ phases' = Append(phases, "boot")
    /\ pc' = "main_sleep"
    /\ UNCHANGED <<exc, exitStatus, cfgVars, vmSignals, monVars, failedPhase,
                   toolStatus, execVars, lastBeat, sshCmd, vmWait, chanVars, grubVars>>

\* line 247: Popen raises (the executable is missing); nothing is in the try yet
StartVmRaises ==
    /\ pc = "start_vm"
    /\ exc' = "OSError"
    /\ exitStatus' = <<1>>
    /\ phases' = Append(phases, "boot")
    /\ failedPhase' = "boot"
    /\ pc' = "main_raised"
    /\ UNCHANGED <<cfgVars, vmVars, monVars, toolStatus, execVars, lastBeat, sshCmd,
                   vmWait, chanVars, grubVars>>

\* lines 149-150: time.sleep(20)
MainSleep ==
    /\ pc = "main_sleep"
    /\ pc' = "configure_system"
    /\ UNCHANGED <<exc, exitStatus, cfgVars, vmVars, monVars, mainVars, execVars, lastBeat, sshCmd, vmWait, chanVars, grubVars>>

\* the VM process ends on its own (the guest powers off, QEMU crashes), or
\* after a signal
VmExits ==
    /\ vmState = "running"
    /\ vmState' = "exited"
    /\ UNCHANGED <<pc, exc, exitStatus, cfgVars, vmSignals, monVars, mainVars, execVars, lastBeat, sshCmd, vmWait, chanVars, grubVars>>

\* lines 153-155: the finally clause, entered on return and on an exception
VmTerminate ==
    /\ pc \in {"cfg_ret", "cfg_raised"}
    /\ vmSignals' = Append(vmSignals, "terminate")
    /\ pc' = "vm_wait"
    /\ UNCHANGED <<exc, exitStatus, cfgVars, vmState, monVars, mainVars, execVars, lastBeat, sshCmd, vmWait, chanVars, grubVars>>

\* lines 156-157: proc.wait(timeout=10) returns, the VM has exited
VmWaitReturns ==
    /\ pc = "vm_wait"
    /\ vmState = "exited"
    /\ vmWait' = "returned"
    /\ pc' = AfterWait(FALSE)
    /\ UNCHANGED <<exc, exitStatus, cfgVars, vmVars, monVars, mainVars, execVars,
                   lastBeat, sshCmd, chanVars, grubVars>>

\* lines 156-158: the VM is still running after 10 s, TimeoutExpired
VmWaitTimesOut ==
    /\ pc = "vm_wait"
    /\ vmState = "running"
    /\ vmWait' = "timeout"
    /\ pc' = AfterWait(TRUE)
    /\ UNCHANGED <<exc, exitStatus, cfgVars, vmVars, monVars, mainVars, execVars,
                   lastBeat, sshCmd, chanVars, grubVars>>

\* line 159: proc.kill()
VmKill ==
    /\ pc = "vm_kill"
    /\ vmSignals' = Append(vmSignals, "kill")
    /\ vmState' = "exited"
    /\ pc' = "finally_end"
    /\ UNCHANGED <<exc, exitStatus, cfgVars, monVars, mainVars, execVars, lastBeat, sshCmd, vmWait, chanVars, grubVars>>

\* line 161, or the exception leaves main after the finally clause
MainEnd ==
    /\ pc = "finally_end"
    /\ IF exc = "none"
         THEN /\ pc' = "all_done"
              /\ exitStatus' = <<0>>
         ELSE /\ pc' = "main_raised"
              /\ exitStatus' = <<1>>
    /\ UNCHANGED <<exc, cfgVars, vmVars, monVars, mainVars, execVars, lastBeat, sshCmd, vmWait, chanVars, grubVars>>

----------------------------------------------------------------------------
(* QemuGenerator.remaster_iso, lines 56-92: the patch of grub.cfg *)

\* A line of grub.cfg is the sequence of its words; a word is a record: w is its
\* text, or for a word with a value the text up to the value; val is the value
\* (of `set timeout=`, or the label after `hd:LABEL=`); path is what follows the
\* label in the same word.
Word(w) == [w |-> w, val |-> "", path |-> ""]

\* self.iso_label (line 19), on x86_64
iso_label == "RHEL-10-X86_64"

\* line 69: what is appended to the linux line of an install entry
kickstart_arg ==
    <<[w |-> "inst.ks=hd:LABEL=", val |-> iso_label, path |-> ":/ks.cfg"],
      Word("inst.text"), Word("inst.sshd"), Word("inst.sshpw=password"),
      Word("inst.debug"), Word("systemd.show_status=auto"),
      Word("console=ttyS0,115200"), Word("plymouth.enable=0")>>

\* the lines the model builds menus from: as on the vendor's image, and a linux
\* line that carries a kickstart location of its own
TimeoutLine  == <<[w |-> "set timeout=", val |-> "60", path |-> ""]>>
DefaultLine  == <<[w |-> "set default=", val |-> "1", path |-> ""]>>
InstallEntry == <<Word("menuentry"), Word("Install"), Word("{")>>
OtherEntry   == <<Word("menuentry"), Word("Troubleshooting"), Word("{")>>
CloseLine    == <<Word("}")>>
InitrdLine   == <<Word("initrd"), Word("/images/pxeboot/initrd.img")>>
LinuxLine ==
    <<Word("linux"), [w |-> "inst.stage2=hd:LABEL=", val |-> "RHEL-10-0", path |-> ""],
      Word("rd.live.check"), Word("quiet")>>
LinuxKsLine ==
    <<Word("linux"), [w |-> "inst.stage2=hd:LABEL=", val |-> "RHEL-10-0", path |-> ""],
      [w |-> "inst.ks=hd:LABEL=", val |-> "RHEL-10-0", path |-> ":/ks.cfg"]>>

GrubLines == {TimeoutLine, DefaultLine, InstallEntry, OtherEntry, CloseLine,
              InitrdLine, LinuxLine, LinuxKsLine}

\* the menus of at most n lines
Menus(n) == UNION {[1..k -> GrubLines] : k \in 0..n}

\* the menu of the vendor's image, in the model's lines
StockMenu == <<TimeoutLine, InstallEntry, LinuxLine, InitrdLine, CloseLine,
               OtherEntry, LinuxLine, CloseLine>>

\* line.strip().startswith(w)
StartsWith(line, w) == line # <<>> /\ line[1].w = w

\* w in line
Contains(line, w) == \E k \in 1..Len(line) : line[k].w = w

\* line 76: 'install' in line.lower() or 'Install' in line
MentionsInstall(line) == Contains(line, "Install") \/ Contains(line, "install")

\* lines 71-74: the timeout and the default entry are set
SetRewrite(line) ==
    IF StartsWith(line, "set default=")
      THEN <<[w |-> "set default=", val |-> "0", path |-> ""]>>
    ELSE IF StartsWith(line, "set timeout=")
      THEN <<[w |-> "set timeout=", val |-> "1", path |-> ""]>>
    ELSE line

\* lines 76-82: in_install after the line has been looked at
InInstallAfter(line, in_install) ==
    IF Contains(line, "menuentry") /\ MentionsInstall(line) THEN TRUE
    ELSE IF StartsWith(line, "}") /\ in_install THEN FALSE
    ELSE IF Contains(line, "menuentry") /\ in_install THEN FALSE
    ELSE in_install

\* a word with hd:LABEL= in it
HasLabel(word) == word.w \in {"inst.stage2=hd:LABEL=", "inst.ks=hd:LABEL="}

\* line 86: re.sub(r'hd:LABEL=[^ ]+', f'hd:LABEL={self.iso_label}', line): the
\* match runs from hd:LABEL= to the end of the word, so the label and what
\* follows it in the word are replaced by the new label
FixLabel(line) ==
    [k \in 1..Len(line) |->
        IF HasLabel(line[k]) THEN [line[k] EXCEPT !.val = iso_label, !.path = ""]
                             ELSE line[k]]

\* line 88: line.replace('rd.live.check', ''); the spaces around it stay
DropMediaCheck(line) ==
    [k \in 1..Len(line) |-> IF line[k].w = "rd.live.check" THEN Word("") ELSE line[k]]

\* line 90: 'inst.ks' in line
HasInstKs(line) == Contains(line, "inst.ks=hd:LABEL=")

\* lines 84-91: what is done to a linux line of an install entry
PatchLinux(line) ==
    LET fixed == DropMediaCheck(FixLabel(line))
    IN IF ~HasInstKs(fixed) THEN fixed \o kickstart_arg ELSE fixed

\* lines 70-91: the loop over the lines, from a given in_install
RECURSIVE PatchFrom(_, _)
PatchFrom(lines, in_install) ==
    IF lines = <<>> THEN <<>>
    ELSE LET line == SetRewrite(Head(lines))
             inside == InInstallAfter(line, in_install)
             out == IF inside /\ StartsWith(line, "linux") THEN PatchLinux(line)
                                                            ELSE line
         IN <<out>> \o PatchFrom(Tail(lines), inside)

\* lines 60-92: modified, from lines with in_install = False
PatchGrubCfg(lines) == PatchFrom(lines, FALSE)

\* lines 58-92: grub.cfg is read, patched and written
PatchGrub ==
    /\ pc = "patch_grub"
    /\ grubPasses < MaxPasses
    /\ grubPrev' = grub
    /\ grub' = PatchGrubCfg(grub)
    /\ grubPasses' = grubPasses + 1
    /\ UNCHANGED <<pc, exc, exitStatus, cfgVars, vmVars, monVars, mainVars, execVars,
                   lastBeat, sshCmd, vmWait, chanVars>>

----------------------------------------------------------------------------
(* main, lines 131-141: the phases before the installation *)

\* non-zero exit statuses of the external tools (qemu-img, mount, cp, chown,
\* chmod, umount, xorriso)
ToolExitCodes == {1, 2}

\* Mutant: a failed qemu-img is not noticed.
ToolFailureIgnored(phase) == IF phase = "disk" THEN "remaster_iso" ELSE "main_raised"

\* subprocess.check_call raises CalledProcessError on a non-zero exit status, and
\* nothing in create_disk_image, remaster_iso or main catches it
ToolFailurePc(phase) == "main_raised"

\* lines 131-133, generate_ks_cfg lines 11-30: ks.cfg is written
GenerateKs ==
    /\ pc = "generate_ks"
    /\ phases' = Append(phases, "kickstart")
    /\ pc' = "create_disk"
    /\ UNCHANGED <<exc, exitStatus, cfgVars, vmVars, monVars, failedPhase, toolStatus,
                   execVars, lastBeat, sshCmd, vmWait, chanVars, grubVars>>

\* generate_ks_cfg line 12: ks.cfg.template cannot be opened
GenerateKsRaises ==
    /\ pc = "generate_ks"
    /\ phases' = Append(phases, "kickstart")
    /\ failedPhase' = "kickstart"
    /\ exc' = "FileNotFoundError"
    /\ exitStatus' = <<1>>
    /\ pc' = "main_raised"
    /\ UNCHANGED <<cfgVars, vmVars, monVars, toolStatus, execVars, lastBeat, sshCmd,
                   vmWait, chanVars, grubVars>>

\* lines 135-138, create_disk_image lines 28-32: qemu-img creates the disk
CreateDiskImage ==
    /\ pc = "create_disk"
    /\ phases' = Append(phases, "disk")
    /\ pc' = "remaster_iso"
    /\ UNCHANGED <<exc, exitStatus, cfgVars, vmVars, monVars, failedPhase, toolStatus,
                   execVars, lastBeat, sshCmd, vmWait, chanVars, grubVars>>

\* find_qemu_img lines 22-26: qemu-img is not installed, FileNotFoundError
CreateDiskNoTool ==
    /\ pc = "create_disk"
    /\ phases' = Append(phases, "disk")
    /\ failedPhase' = "disk"
    /\ exc' = "FileNotFoundError"
    /\ exitStatus' = <<1>>
    /\ pc' = "main_raised"
    /\ UNCHANGED <<cfgVars, vmVars, monVars, toolStatus, execVars, lastBeat, sshCmd,
                   vmWait, chanVars, grubVars>>

\* create_disk_image line 32: qemu-img exits with a non-zero status
CreateDiskFails ==
    /\ pc = "create_disk"
    /\ phases' = Append(phases, "disk")
    /\ failedPhase' = "disk"
    /\ \E c \in ToolExitCodes : toolStatus' = <<c>>
    /\ pc' = ToolFailurePc("disk")
    /\ IF ToolFailurePc("disk") = "main_raised"
         THEN /\ exc' = "CalledProcessError"
              /\ exitStatus' = <<1>>
         ELSE UNCHANGED <<exc, exitStatus>>
    /\ UNCHANGED <<cfgVars, vmVars, monVars, execVars, lastBeat, sshCmd, vmWait, chanVars, grubVars>>

\* lines 140-141, remaster_iso lines 34-109: every command succeeds, the
\* remastered image is built
RemasterIso ==
    /\ pc = "remaster_iso"
    /\ phases' = Append(phases, "remaster")
    /\ grubPrev' = grub
    /\ grub' = PatchGrubCfg(grub)
    /\ grubPasses' = grubPasses + 1
    /\ pc' = "run_install"
    /\ UNCHANGED <<exc, exitStatus, cfgVars, vmVars, monVars, failedPhase, toolStatus,
                   execVars, lastBeat, sshCmd, vmWait, chanVars>>

\* remaster_iso lines 44-51 and 108: one of its commands (mount, cp, chown, chmod,
\* umount, xorriso) exits with a non-zero status (after a failed cp, chown or chmod the umount of the finally clause
\* still runs, and the exception goes on)
RemasterIsoFails ==
    /\ pc = "remaster_iso"
    /\ phases' = Append(phases, "remaster")
    /\ failedPhase' = "remaster"
    /\ \E c \in ToolExitCodes : toolStatus' = <<c>>
    /\ pc' = ToolFailurePc("remaster")
    /\ IF ToolFailurePc("remaster") = "main_raised"
         THEN /\ exc' = "CalledProcessError"
              /\ exitStatus' = <<1>>
         ELSE UNCHANGED <<exc, exitStatus>>
    /\ UNCHANGED <<cfgVars, vmVars, monVars, execVars, lastBeat, sshCmd, vmWait, chanVars, grubVars>>

----------------------------------------------------------------------------
(* QemuGenerator.run_install and debug_snapshot *)

\* Clock readings the model draws from: the boundaries of the five-minute periods
\* and one second either side of each, which include the hang threshold's.
TimePoints ==
    {t \in {k * HeartbeatInterval + d : k \in 0..MaxPeriods, d \in {-1, 0, 1}} : t >= 0}

\* a reading of the clock no earlier than the latest one
Later(t) == {u \in TimePoints : u >= t}

\* a reading of the clock at most d seconds after t
Within(t, d) == {u \in Later(t) : u <= t + d}

\* codes the install subprocess may exit with; a negative code is a death by signal
InstallExitCodes == {0, 1, 2, -9}

\* Mutant: the heartbeat waits for more than the interval.
HeartbeatDueStrict(elapsed, last) == elapsed - last > HeartbeatInterval

\* line 201: if elapsed - (last_status_time - start_time) >= 300
HeartbeatDue(elapsed, last) == elapsed - last >= HeartbeatInterval

\* Mutant: the check is not single-shot.
HangDetectedRepeats(checked, elapsed) == elapsed > HangThreshold

\* line 207: if not ssh_checked and elapsed > 1800
HangDetected(checked, elapsed) == ~checked /\ elapsed > HangThreshold

\* lines 208-211: what the hang branch sends to the subprocess, which is nothing
\* ("Continue running - don't kill the process yet")
HangSignals == <<>>

\* how the sshpass/ssh command of debug_snapshot can end without a session
ConnectOutcomes == {"refused", "timeout", "auth", "missing"}

\* how it can end once the session is made: the remote commands' status
RemoteOutcomes == {"ok", "nonzero"}

\* how the sshpass/ssh command of debug_snapshot can end
SnapshotOutcomes == ConnectOutcomes \cup RemoteOutcomes

\* lines 238-239: what subprocess.check_call raises for an outcome
SnapshotException(o) ==
    IF o = "ok" THEN "none"
    ELSE IF o = "missing" THEN "FileNotFoundError"
    ELSE "CalledProcessError"

\* Mutant: only a failed command is caught, not a missing executable.
SnapshotCaughtOnlyCalled(e) == e = "CalledProcessError"

\* line 240: except Exception
SnapshotCaught(e) == e \in {"CalledProcessError", "FileNotFoundError"}

\* Mutant: a death by signal is not seen as a failure.
InstallFailedPositive(rc) == rc[1] > 0

\* line 213: if process.returncode != 0
InstallFailed(rc) == rc # <<0>>

\* Mutant: the loop never sees the subprocess exit.
PollSeesExitNever(state) == FALSE

\* Mutant: the loop does not wait for the subprocess.
PollSeesExitAlways(state) == TRUE

\* line 188: process.poll() is not None once the subprocess has exited
PollSeesExit(state) == state = "exited"

\* what subprocess.Popen raises when the subprocess cannot be started: the
\* executable is missing, or the spawn fails otherwise
SpawnErrors == {"FileNotFoundError", "OSError"}

\* Mutant: a spawn error other than a missing executable is tried again.
SpawnFailureRetries(e) == IF e = "OSError" THEN "run_install" ELSE "sys_exit"

\* lines 179-181: except Exception as e: print, sys.exit(1)
SpawnFailurePc(e) == "sys_exit"

\* the values of the install session before it starts and after it is over
SessionIdle ==
    /\ written = 0
    /\ pipe = <<>>
    /\ sink = <<>>
    /\ now = 0
    /\ last_status_time = 0
    /\ ssh_checked = FALSE
    /\ snapLog = <<>>

\* line 166, get_qemu_cmd lines 131-134: no firmware for aarch64, FileNotFoundError
\* leaves run_install and main
RunInstallCmdRaises ==
    /\ pc = "run_install"
    /\ exc' = "FileNotFoundError"
    /\ exitStatus' = <<1>>
    /\ phases' = Append(phases, "install")
    /\ failedPhase' = "qemu_cmd"
    /\ pc' = "main_raised"
    /\ UNCHANGED <<cfgVars, vmVars, monVars, toolStatus, execVars, lastBeat, sshCmd,
                   vmWait, chanVars, grubVars>>

\* lines 166-185: the subprocess is started, the clock is read
RunInstall ==
    /\ pc = "run_install"
    /\ spawns' = spawns + 1
    /\ procState' = "running"
    /\ now' = 0
    /\ last_status_time' = 0
    /\ ssh_checked' = FALSE
    /\ phases' = Append(phases, "install")
    /\ pc' = "mon_poll"
    /\ UNCHANGED <<exc, exitStatus, cfgVars, vmVars, procExit, returncode,
                   installSignals, written, pipe, sink, snapLog, failedPhase,
                   toolStatus, execVars, lastBeat, sshCmd, vmWait, chanVars, grubVars>>

\* lines 176-181: Popen raises, the handler prints and calls sys.exit(1)
RunInstallSpawnFails ==
    /\ pc = "run_install"
    /\ spawns' = spawns + 1
    /\ \E e \in SpawnErrors :
         /\ pc' = SpawnFailurePc(e)
         /\ exitStatus' = IF SpawnFailurePc(e) = "sys_exit" THEN <<1>> ELSE exitStatus
         /\ failedPhase' = IF SpawnFailurePc(e) = "sys_exit" THEN "launch" ELSE failedPhase
    /\ phases' = IF spawns = 0 THEN Append(phases, "install") ELSE phases
    /\ UNCHANGED <<exc, cfgVars, vmVars, procState, procExit, returncode,
                   installSignals, written, pipe, sink, now, last_status_time,
                   ssh_checked, snapLog, toolStatus, execVars, lastBeat, sshCmd, vmWait, chanVars, grubVars>>

\* the install subprocess writes a chunk of output
ProcWrite ==
    /\ procState = "running"
    /\ written < MaxOutput
    /\ written' = written + 1
    /\ pipe' = Append(pipe, written + 1)
    /\ UNCHANGED <<pc, exc, exitStatus, cfgVars, vmVars, spawns, procState, procExit,
                   returncode, installSignals, sink, now, last_status_time,
                   ssh_checked, snapLog, mainVars, execVars, lastBeat, sshCmd, vmWait, chanVars, grubVars>>

\* the install subprocess exits (the guest powers off, QEMU fails, it is killed)
ProcExit ==
    /\ procState = "running"
    /\ \E c \in InstallExitCodes : procExit' = <<c>>
    /\ procState' = "exited"
    /\ UNCHANGED <<pc, exc, exitStatus, cfgVars, vmVars, spawns, returncode,
                   installSignals, written, pipe, sink, now, last_status_time,
                   ssh_checked, snapLog, mainVars, execVars, lastBeat, sshCmd, vmWait, chanVars, grubVars>>

\* line 188: while process.poll() is None
MonPoll ==
    /\ pc = "mon_poll"
    /\ IF PollSeesExit(procState)
         THEN /\ returncode' = procExit
              /\ pc' = "mon_after"
         ELSE /\ pc' = "mon_select"
              /\ UNCHANGED returncode
    /\ UNCHANGED <<exc, exitStatus, cfgVars, vmVars, spawns, procState, procExit,
                   installSignals, written, pipe, sink, now, last_status_time,
                   ssh_checked, snapLog, mainVars, execVars, lastBeat, sshCmd, vmWait, chanVars, grubVars>>

\* lines 190-197: select for at most one second, then one os.read of what is there
MonSelectRead ==
    /\ pc = "mon_select"
    /\ IF pipe # <<>>
         THEN /\ sink' = Append(sink, Head(pipe))
              /\ pipe' = Tail(pipe)
         ELSE UNCHANGED <<sink, pipe>>
    /\ pc' = "mon_timers"
    /\ UNCHANGED <<exc, exitStatus, cfgVars, vmVars, spawns, procState, procExit,
                   returncode, installSignals, written, now, last_status_time,
                   ssh_checked, snapLog, mainVars, execVars, lastBeat, sshCmd, vmWait, chanVars, grubVars>>

\* lines 200-208: the clock is read into elapsed; the heartbeat, when due, reads the
\* clock again into last_status_time; the hang check decides on elapsed
MonTimers ==
    /\ pc = "mon_timers"
    /\ \E elapsed \in Later(now) :
         /\ IF HeartbeatDue(elapsed, last_status_time)
              THEN /\ lastBeat' = elapsed
                   /\ \E t \in Within(elapsed, MaxPrintDelay) :
                        /\ last_status_time' = t
                        /\ now' = t
              ELSE /\ now' = elapsed
                   /\ UNCHANGED <<last_status_time, lastBeat>>
         /\ IF HangDetected(ssh_checked, elapsed)
              THEN /\ snapLog' = Append(snapLog, [elapsed |-> elapsed,
                                                  returncode |-> returncode,
                                                  outcome |-> "pending"])
                   /\ sshCmd' = "connecting"
                   /\ pc' = "debug_snapshot"
              ELSE /\ pc' = "mon_poll"
                   /\ UNCHANGED <<snapLog, sshCmd>>
    /\ UNCHANGED <<exc, exitStatus, cfgVars, vmVars, spawns, procState, procExit,
                   returncode, installSignals, written, pipe, sink, ssh_checked,
                   mainVars, execVars, vmWait, chanVars, grubVars>>

\* debug_snapshot lines 226-239: the sshpass/ssh command does not get a session
\* (sshpass is missing, the port refuses, ConnectTimeout=10 runs out, the
\* password is refused)
SshConnectFails ==
    /\ sshCmd = "connecting"
    /\ \E o \in ConnectOutcomes : sshCmd' = o
    /\ UNCHANGED <<pc, exc, exitStatus, cfgVars, vmVars, monVars, mainVars, execVars,
                   lastBeat, vmWait, chanVars, grubVars>>

\* the session is made within the connect timeout; the remote commands of line
\* 235 run in the guest
SshConnected ==
    /\ sshCmd = "connecting"
    /\ sshCmd' = "running"
    /\ UNCHANGED <<pc, exc, exitStatus, cfgVars, vmVars, monVars, mainVars, execVars,
                   lastBeat, vmWait, chanVars, grubVars>>

\* the remote commands end, which nothing on the host bounds: the command line
\* has ConnectTimeout only, and check_call (line 239) is given no timeout
SshRemoteEnds ==
    /\ sshCmd = "running"
    /\ \E o \in RemoteOutcomes : sshCmd' = o
    /\ UNCHANGED <<pc, exc, exitStatus, cfgVars, vmVars, monVars, mainVars, execVars,
                   lastBeat, vmWait, chanVars, grubVars>>

\* the install subprocess has exited and with it the forwarded port: the session
\* is cut and ssh ends with a non-zero status
SshDropped ==
    /\ sshCmd = "running"
    /\ procState = "exited"
    /\ sshCmd' = "nonzero"
    /\ UNCHANGED <<pc, exc, exitStatus, cfgVars, vmVars, monVars, mainVars, execVars,
                   lastBeat, vmWait, chanVars, grubVars>>

\* lines 209-210, debug_snapshot lines 238-241: check_call returns or raises when
\* the command has ended; what it raises is caught and logged, or leaves
\* run_install and main
DebugSnapshot ==
    /\ pc = "debug_snapshot"
    /\ sshCmd \in SnapshotOutcomes
    /\ sshCmd' = "none"
    /\ installSignals' = installSignals \o HangSignals
    /\ procState' = IF HangSignals # <<>> THEN "exited" ELSE procState
    /\ procExit' = IF HangSignals # <<>> /\ procState = "running" THEN <<-9>> ELSE procExit
    /\ \E o \in {sshCmd} :
         /\ snapLog' = [snapLog EXCEPT ![Len(snapLog)].outcome = o]
         /\ IF SnapshotException(o) = "none" \/ SnapshotCaught(SnapshotException(o))
              THEN /\ ssh_checked' = TRUE
                   /\ pc' = "mon_poll"
                   /\ UNCHANGED <<exc, exitStatus>>
              ELSE /\ exc' = SnapshotException(o)
                   /\ exitStatus' = <<1>>
                   /\ pc' = "main_raised"
                   /\ UNCHANGED ssh_checked
    /\ UNCHANGED <<cfgVars, vmVars, spawns, returncode, written, pipe, sink, now,
                   last_status_time, mainVars, execVars, lastBeat, vmWait, chanVars, grubVars>>

\* lines 213-215: sys.exit(process.returncode) on failure
MonInstallFailed ==
    /\ pc = "mon_after"
    /\ InstallFailed(returncode)
    /\ exitStatus' = <<returncode[1] % 256>>
    /\ failedPhase' = "install"
    /\ toolStatus' = returncode
    /\ pc' = "sys_exit"
    /\ UNCHANGED <<exc, cfgVars, vmVars, monVars, phases, execVars, lastBeat, sshCmd,
                   vmWait, chanVars, grubVars>>

\* lines 213-215 fall through, run_install returns to main line 146; the install
\* session is over
MonReturn ==
    /\ pc = "mon_after"
    /\ ~InstallFailed(returncode)
    /\ written' = 0
    /\ pipe' = <<>>
    /\ sink' = <<>>
    /\ now' = 0
    /\ last_status_time' = 0
    /\ ssh_checked' = FALSE
    /\ snapLog' = <<>>
    /\ lastBeat' = 0
    /\ pc' = "start_vm"
    /\ UNCHANGED <<exc, exitStatus, cfgVars, vmVars, spawns, procState, procExit,
                   returncode, installSignals, mainVars, execVars, sshCmd, vmWait, chanVars, grubVars>>

----------------------------------------------------------------------------
(* Specifications *)

CfgInit ==
    /\ exc = "none"
    /\ exitStatus = <<>>
    /\ i = 0
    /\ attempts = 0
    /\ sleeps = 0
    /\ slept = 0
    /\ ssh_client = "None"
    /\ connectRet = <<>>
    /\ cur = "none"
    /\ issued = <<>>
    /\ running = {}
    /\ chan_status = <<>>
    /\ failed = {}
    /\ verifyStatus = <<>>
    /\ closes = 0
    /\ afterClose = {}
    /\ remoteLeft = 0
    /\ chanBuf = 0

MainInit ==
    /\ phases = <<>>
    /\ failedPhase = "none"
    /\ toolStatus = <<>>
    /\ vmWait = "none"
    /\ execRet = <<>>
    /\ report = "none"

\* no grub.cfg at hand
GrubNone ==
    /\ grub = <<>>
    /\ grubPrev = <<>>
    /\ grubPasses = 0

MonInit ==
    /\ sshCmd = "none"
    /\ lastBeat = 0
    /\ spawns = 0
    /\ procState = "none"
    /\ procExit = <<>>
    /\ returncode = <<>>
    /\ installSignals = <<>>
    /\ SessionIdle

\* main about to generate the answer file (line 131)
Init ==
    /\ pc = "generate_ks"
    /\ MainInit
    /\ grub = StockMenu
    /\ grubPrev = <<>>
    /\ grubPasses = 0
    /\ MonInit
    /\ CfgInit
    /\ retries = DefaultRetries
    /\ interval = DefaultInterval
    /\ sub_user = <<>>
    /\ sub_pass = <<>>
    /\ vmState = "none"
    /\ vmSignals = <<>>

ConnectNext ==
    \/ ConnectBegin
    \/ ConnectLoop
    \/ ConnectTryOk
    \/ ConnectTryFail
    \/ ConnectSleep

MonitorNext ==
    \/ RunInstallCmdRaises
    \/ RunInstall
    \/ RunInstallSpawnFails
    \/ ProcWrite
    \/ ProcExit
    \/ MonPoll
    \/ MonSelectRead
    \/ MonTimers
    \/ SshConnectFails
    \/ SshConnected
    \/ SshRemoteEnds
    \/ SshDropped
    \/ DebugSnapshot
    \/ MonInstallFailed
    \/ MonReturn

PrepareNext ==
    \/ GenerateKs
    \/ GenerateKsRaises
    \/ CreateDiskImage
    \/ CreateDiskNoTool
    \/ CreateDiskFails
    \/ RemasterIso
    \/ RemasterIsoFails

Next ==
    \/ PrepareNext
    \/ MonitorNext
    \/ StartVm
    \/ StartVmRaises
    \/ MainSleep
    \/ ConfigureSystem
    \/ ConnectNext
    \/ CfgConnectFailed
    \/ CfgSubscription
    \/ ExecIssue
    \/ ExecIssueRaises
    \/ RemoteWrite
    \/ RemoteExit
    \/ ExecCollect
    \/ ExecDecodeRaises
    \/ CfgClose
    \/ VmExits
    \/ VmTerminate
    \/ VmWaitReturns
    \/ VmWaitTimesOut
    \/ VmKill
    \/ MainEnd

\* the steps of the program itself (the environment's are ProcWrite, ProcExit,
\* the Ssh steps of the diagnostic command, RemoteWrite, RemoteExit and VmExits)
ProgramNext ==
    \/ PrepareNext
    \/ RunInstallCmdRaises \/ RunInstall \/ RunInstallSpawnFails \/ MonPoll
    \/ MonSelectRead \/ MonTimers \/ DebugSnapshot \/ MonInstallFailed \/ MonReturn
    \/ StartVm \/ StartVmRaises \/ MainSleep \/ ConfigureSystem \/ ConnectNext
    \/ CfgConnectFailed \/ CfgSubscription \/ ExecIssue \/ ExecIssueRaises
    \/ ExecCollect \/ ExecDecodeRaises \/ CfgClose \/ VmTerminate \/ VmWaitReturns
    \/ VmWaitTimesOut \/ VmKill \/ MainEnd

Spec == Init /\ [][Next]_vars

\* connect called on its own, with any retry count and interval
ConnectInit ==
    /\ pc = "connect"
    /\ CfgInit
    /\ retries \in 0..MaxRetries
    /\ interval \in Intervals
    /\ sub_user = <<>>
    /\ sub_pass = <<>>
    /\ vmState = "none"
    /\ vmSignals = <<>>
    /\ MonInit
    /\ MainInit
    /\ GrubNone

SpecConnect == ConnectInit /\ [][ConnectNext]_vars

\* run_install called by main after the first three phases (line 144)
MonitorInit ==
    /\ pc = "run_install"
    /\ phases = <<"kickstart", "disk", "remaster">>
    /\ failedPhase = "none"
    /\ toolStatus = <<>>
    /\ vmWait = "none"
    /\ execRet = <<>>
    /\ report = "none"
    /\ grub = PatchGrubCfg(StockMenu)
    /\ grubPrev = StockMenu
    /\ grubPasses = 1
    /\ MonInit
    /\ CfgInit
    /\ retries = DefaultRetries
    /\ interval = DefaultInterval
    /\ sub_user = <<>>
    /\ sub_pass = <<>>
    /\ vmState = "none"
    /\ vmSignals = <<>>

\* the steps run_install itself takes
MonitorProgram ==
    \/ RunInstallCmdRaises \/ RunInstall \/ RunInstallSpawnFails \/ MonPoll
    \/ MonSelectRead \/ MonTimers \/ DebugSnapshot \/ MonInstallFailed \/ MonReturn

\* run_install under fair scheduling: the program takes its next step; ssh gives
\* up or gets its session within ConnectTimeout; a session through the forwarded
\* port ends once the subprocess that forwards it has exited.  Nothing makes the
\* subprocess write or exit, or the guest finish the remote commands.
SpecMonitor ==
    /\ MonitorInit
    /\ [][MonitorNext]_vars
    /\ WF_vars(MonitorProgram)
    /\ WF_vars(SshConnectFails \/ SshConnected)
    /\ WF_vars(SshDropped)

\* execute_command called for any command of the sequence, with and without an
\* established session
ExecInit ==
    /\ pc = "exec_issue"
    /\ exc = "none"
    /\ exitStatus = <<>>
    /\ i = 0
    /\ attempts = 0
    /\ sleeps = 0
    /\ slept = 0
    /\ ssh_client \in {"None", "connected"}
    /\ connectRet = <<>>
    /\ cur \in {Order[k] : k \in 1..Len(Order)}
    /\ issued = <<>>
    /\ running = {}
    /\ chan_status = <<>>
    /\ failed = {}
    /\ verifyStatus = <<>>
    /\ closes = 0
    /\ afterClose = {}
    /\ remoteLeft = 0
    /\ chanBuf = 0
    /\ retries = DefaultRetries
    /\ interval = DefaultInterval
    /\ sub_user = <<>>
    /\ sub_pass = <<>>
    /\ vmState = "none"
    /\ vmSignals = <<>>
    /\ MonInit
    /\ MainInit
    /\ GrubNone

ExecNext ==
    \/ ExecIssue
    \/ ExecIssueRaises
    \/ ExecNotConnected
    \/ RemoteWrite
    \/ RemoteExit
    \/ ExecCollect
    \/ ExecDecodeRaises

SpecExec == ExecInit /\ [][ExecNext]_vars

\* the patch of remaster_iso applied to any menu of at most MaxLines lines, and
\* again to what it wrote
GrubInit ==
    /\ pc = "patch_grub"
    /\ grub \in Menus(MaxLines)
    /\ grubPrev = <<>>
    /\ grubPasses = 0
    /\ MainInit
    /\ MonInit
    /\ CfgInit
    /\ retries = DefaultRetries
    /\ interval = DefaultInterval
    /\ sub_user = <<>>
    /\ sub_pass = <<>>
    /\ vmState = "none"
    /\ vmSignals = <<>>

SpecGrub == GrubInit /\ [][PatchGrub]_vars

----------------------------------------------------------------------------
(* Properties *)

Range(q) == {q[k] : k \in 1..Len(q)}

Count(c, q) == Cardinality({k \in 1..Len(q) : q[k] = c})

\* C1: connect with retry count N and interval I, all of whose attempts fail with
\* an error the except clause names, makes exactly N attempts, sleeps I after each
\* of them (N sleeps, N * I seconds), and then returns False.  Checked under
\* SpecConnect, where N ranges over 0..MaxRetries and I over Intervals.
C1_AllAttemptsFail ==
    /\ attempts <= retries
    /\ exc \notin {"ConnectionRefusedError", "AuthenticationException", "SSHException"}
    /\ (ssh_client # "connected" /\ exc = "none") =>
         /\ pc \in {"connect", "conn_loop", "conn_try", "conn_sleep", "connect_ret"}
         /\ sleeps = IF pc = "conn_sleep" THEN attempts - 1 ELSE attempts
         /\ slept = sleeps * interval
         /\ pc = "connect_ret" => connectRet = <<FALSE>>
    /\ connectRet = <<FALSE>> =>
         /\ attempts = retries
         /\ sleeps = retries
         /\ slept = retries * interval
         /\ ssh_client # "connected"

\* the example of the specification: retries 3, interval 0, three failures
C1_Witness ==
    /\ connectRet = <<FALSE>>
    /\ pc = "connect_ret"
    /\ retries = 3
    /\ interval = 0
    /\ attempts = 3
    /\ sleeps = 3

\* C2: when attempt k succeeds after k-1 failures, connect returns True at once:
\* no further attempt is made and no sleep follows the success; it returns False
\* only after all N attempts have failed.  Checked under SpecConnect.
C2_SuccessStopsRetrying ==
    /\ ssh_client = "connected" =>
         /\ pc = "connect_ret"
         /\ connectRet = <<TRUE>>
         /\ attempts <= retries
         /\ sleeps = attempts - 1
    /\ connectRet = <<TRUE>> => ssh_client = "connected"
    /\ connectRet = <<FALSE>> => (attempts = retries /\ ssh_client # "connected")

\* success at the second of four attempts
C2_Witness ==
    /\ connectRet = <<TRUE>>
    /\ retries = 4
    /\ attempts = 2
    /\ sleeps = 1

\* C3: when connect has exhausted its attempts, configure_system runs no step and
\* returns without raising; main still stops the VM (terminate first) and reaches
\* its last line with exit status 0, and is never stuck on the way.
C3_ExhaustionSkipsSteps ==
    connectRet = <<FALSE>> =>
      /\ issued = <<>>
      /\ running = {}
      /\ closes = 0
      /\ exc = "none"
      /\ pc \in {"connect_ret", "cfg_ret", "vm_wait", "vm_kill", "finally_end", "all_done"}
      /\ pc \in {"vm_wait", "vm_kill", "finally_end", "all_done"} =>
           (vmSignals # <<>> /\ vmSignals[1] = "terminate")
      /\ pc \in {"finally_end", "all_done"} => vmState = "exited"
      /\ pc = "all_done" => exitStatus = <<0>>
      /\ pc # "all_done" => ENABLED ProgramNext

\* connect failed thirty times and main ran to its end with the VM stopped
C3_Witness ==
    /\ connectRet = <<FALSE>>
    /\ pc = "all_done"
    /\ vmState = "exited"
    /\ issued = <<>>

\* C4: after a successful connect, whichever steps return a non-zero status, every
\* unconditional step is still run: each step before the current one has been
\* issued, and when configure_system reaches line 100 each has been issued once.
C4_FailuresDoNotStopSequence ==
    /\ cur # "none" =>
         \A c \in Unconditional : Pos(c) < Pos(cur) => Count(c, issued) = 1
    /\ (pc = "cfg_close" \/ closes > 0) =>
         \A c \in Unconditional : Count(c, issued) = 1
    /\ \A c \in failed : c \in Range(issued)

\* every unconditional step failed and every one of them was run
C4_Witness ==
    /\ pc = "cfg_ret"
    /\ connectRet = <<TRUE>>
    /\ failed = Unconditional
    /\ \A c \in Unconditional : Count(c, issued) = 1

\* configure_system has returned normally after a successful connect
ConfiguredAndReturned ==
    /\ connectRet = <<TRUE>>
    /\ exc = "none"
    /\ pc \in {"cfg_ret", "vm_wait", "vm_kill", "finally_end", "all_done"}

SkipsRegistration ==
    \/ sub_user \in {<<>>, <<"">>}
    \/ sub_pass \in {<<>>, <<"">>}
    \/ sub_user = <<"CHANGE_ME">>

\* C6: once configure_system has read the credentials, the registration command is
\* never issued if the user name or the password is absent or empty or the user
\* name is "CHANGE_ME"; otherwise it is issued exactly once and is the first
\* command on the session, the package update coming second.
C6_RegistrationIffCredentials ==
    cur # "none" =>
      IF SkipsRegistration
        THEN /\ Count("register", issued) = 0
             /\ cur # "register"
             /\ issued # <<>> => issued[1] = "update"
        ELSE /\ issued = <<>> => (cur = "register" /\ pc = "exec_issue")
             /\ issued # <<>> => (issued[1] = "register" /\ Count("register", issued) = 1)
             /\ Len(issued) >= 2 => issued[2] = "update"

\* registration ran first, with a password that happens to be the placeholder
C6_Witness ==
    /\ Len(issued) >= 2
    /\ issued[1] = "register"
    /\ issued[2] = "update"
    /\ sub_user = <<"rhuser">>
    /\ sub_pass = <<"CHANGE_ME">>

\* C7: the version report is issued if and only if the verification returned exit
\* status 0, whatever the earlier steps returned.
C7_VersionReportIffVerified ==
    /\ Count("podman", issued) > 0 => verifyStatus = <<0>>
    /\ verifyStatus = <<0>> =>
         (cur = "podman" /\ (pc = "exec_issue" \/ Count("podman", issued) = 1))
    /\ (verifyStatus # <<>> /\ verifyStatus # <<0>>) =>
         (cur = "verify" /\ Count("podman", issued) = 0)

\* every step before the verification failed, the verification passed, and the
\* version report ran
C7_Witness ==
    /\ Count("podman", issued) = 1
    /\ verifyStatus = <<0>>
    /\ Unconditional \ {"verify"} \subseteq failed

\* C8: the commands are issued in the order of Order without gaps (registration,
\* when present, first; the version report, when present, last), and one at a
\* time: a command is issued only when no earlier one is still running.
C8_FixedOrderOneAtATime ==
    /\ \A k \in 1..(Len(issued) - 1) : Pos(issued[k + 1]) = Pos(issued[k]) + 1
    /\ issued # <<>> => issued[1] \in {"register", "update"}
    /\ Cardinality(running) <= 1
    /\ running # {} => (pc = "exec_wait" /\ running = {cur})
    /\ pc = "exec_issue" => running = {}

\* all ten commands were issued, the last one is running
C8_Witness ==
    /\ issued = Order
    /\ running = {"podman"}

\* C9 (state part): at most one diagnostic capture per install session, triggered
\* only with elapsed > 1800 and process.returncode still None, and the pipeline
\* has sent no signal to the install subprocess.
C9_Inv ==
    /\ Len(snapLog) <= 1
    /\ \A k \in 1..Len(snapLog) :
         /\ snapLog[k].elapsed > 1800
         /\ snapLog[k].returncode = <<>>
    /\ installSignals = <<>>
    /\ ssh_checked => Len(snapLog) = 1
    /\ pc = "debug_snapshot" => (~ssh_checked /\ Len(snapLog) = 1)

\* C9 (step part): the capture leaves the subprocess as it was and control goes
\* back to the head of the monitor loop.
C9_Step ==
    (pc = "debug_snapshot" /\ pc' # "debug_snapshot") =>
      /\ pc' = "mon_poll"
      /\ ssh_checked'
      /\ procState' = procState
      /\ procExit' = procExit
      /\ installSignals' = installSignals

\* C9: the hang-diagnostic capture is triggered at most once per run_install, only
\* when elapsed exceeds the 30-minute threshold while the subprocess is still
\* considered alive; it never terminates or signals the subprocess, and the
\* monitor loop goes on afterwards.
C9_HangCaptureOnceNoKill == []C9_Inv /\ [][C9_Step]_vars

\* the capture was made, the subprocess is still running, the loop is back at poll
C9_Witness ==
    /\ pc = "mon_select"
    /\ ssh_checked
    /\ Len(snapLog) = 1
    /\ snapLog[1].elapsed = 1801
    /\ now > 1801
    /\ procState = "running"

\* C10: whatever way the diagnostic command fails, no exception leaves
\* debug_snapshot: run_install stays in its loop and ends as the subprocess's exit
\* code alone decides (return on 0, sys.exit with that code otherwise).
C10_SnapshotNeverRaises ==
    snapLog # <<>> =>
      /\ exc = "none"
      /\ pc \in {"debug_snapshot", "mon_poll", "mon_select", "mon_timers", "mon_after",
                 "sys_exit"}
      /\ snapLog[1].outcome # "pending" => (ssh_checked /\ pc # "debug_snapshot")
      /\ pc = "mon_after" => returncode = procExit
      /\ pc = "sys_exit" => (procExit # <<0>> /\ exitStatus = <<procExit[1] % 256>>)

\* the diagnostic tool was missing, the loop went on and the install ended with 0
C10_Witness ==
    /\ snapLog # <<>>
    /\ snapLog[1].outcome = "missing"
    /\ pc = "mon_after"
    /\ returncode = <<0>>


\* the pipeline has gone no further than run_install: no VM, no connection
\* attempt, no configuration command
NothingAfterInstall ==
    /\ vmState = "none"
    /\ vmSignals = <<>>
    /\ attempts = 0
    /\ issued = <<>>

\* C11 as stated: after a non-zero exit code c of the install subprocess the
\* pipeline's exit status is c itself.
C11_ExitStatusIsCode ==
    (pc = "sys_exit" /\ procState = "exited") => exitStatus = procExit

\* C11, amended: when the install subprocess ends with returncode c # 0 the
\* pipeline stops at sys.exit with exit status c modulo 256 (c itself for
\* c in 1..255, 256 - N after a death by signal N), and neither the VM boot
\* nor any configuration step is started; with returncode 0 run_install returns
\* and the next step of the pipeline is the VM boot.
C11_InstallExitPropagates ==
    /\ (pc = "sys_exit" /\ procState = "exited") =>
          /\ procExit \notin {<<>>, <<0>>}
          /\ exitStatus = <<procExit[1] % 256>>
          /\ (procExit[1] \in 1..255 => exitStatus = procExit)
          /\ exitStatus # <<0>>
          /\ NothingAfterInstall
    /\ (procState = "exited" /\ procExit # <<0>>) =>
          /\ pc \in {"mon_poll", "mon_select", "mon_timers", "debug_snapshot",
                     "mon_after", "sys_exit"}
          /\ NothingAfterInstall
    /\ (pc = "mon_after" /\ procExit = <<0>>) => ENABLED MonReturn /\ ~ENABLED MonInstallFailed
    /\ pc = "start_vm" => procExit = <<0>> /\ exitStatus = <<>>

\* an install killed by signal 9 has stopped the pipeline with status 247
C11_Witness ==
    /\ pc = "sys_exit"
    /\ procExit = <<-9>>
    /\ exitStatus = <<247>>


\* the monitor loop of run_install and what follows it in run_install
MonitorPcs == {"mon_poll", "mon_select", "mon_timers", "debug_snapshot", "mon_after"}

\* C12: when the install subprocess cannot be started (executable missing or
\* another spawn error), run_install has made exactly one spawn attempt, never
\* entered the monitor loop, emitted no heartbeat and captured no diagnostics,
\* and the pipeline has stopped with a non-zero status before any later phase;
\* no run makes a second spawn attempt.
C12_LaunchFailureFailsAtOnce ==
    /\ spawns <= 1
    /\ pc \in MonitorPcs => (procState # "none" /\ spawns = 1)
    /\ (pc = "sys_exit" /\ procState = "none") =>
          /\ spawns = 1
          /\ exitStatus \notin {<<>>, <<0>>}
          /\ returncode = <<>>
          /\ SessionIdle
          /\ lastBeat = 0
          /\ sshCmd = "none"
          /\ NothingAfterInstall

\* the launch failed and the pipeline has stopped
C12_Witness ==
    /\ pc = "sys_exit"
    /\ procState = "none"
    /\ spawns = 1
    /\ exitStatus = <<1>>


\* main is past run_install (line 146 onward), not stopped by sys.exit or by an
\* exception before the VM
PastInstall ==
    pc \in {"start_vm", "main_sleep", "configure_system", "connect", "conn_loop",
            "conn_try", "conn_sleep", "connect_ret", "cfg_raised", "exec_issue",
            "exec_wait", "cfg_close", "cfg_ret", "vm_wait", "vm_kill",
            "finally_end", "all_done"}

\* the number of virtualization subprocesses alive
AliveSubprocesses ==
    (IF procState = "running" THEN 1 ELSE 0) + (IF vmState = "running" THEN 1 ELSE 0)

\* C13: the install subprocess has ended before the pipeline goes on: at most one
\* virtualization subprocess is alive in every reachable state, run_install
\* leaves its loop only with the exit code of an ended subprocess, and the VM is
\* never started while the install subprocess is running.
C13_InstallEndsBeforeBoot ==
    /\ AliveSubprocesses <= 1
    /\ pc = "mon_after" => (procState = "exited" /\ returncode = procExit
                            /\ returncode # <<>>)
    /\ (PastInstall \/ vmState # "none") => procState = "exited"

\* the VM runs, after an install subprocess that has ended
C13_Witness ==
    /\ vmState = "running"
    /\ procState = "exited"
    /\ spawns = 1


\* a pass of the monitor loop reaches the end of its timer checks
TimersPass == pc = "mon_timers" /\ pc' # "mon_timers"

\* C14: in every pass of the monitor loop a heartbeat is emitted exactly when at
\* least 300 seconds have gone by since the time noted at the previous heartbeat
\* (or since the launch), whether or not the subprocess wrote anything, and the
\* elapsed times of two consecutive heartbeats are at least 300 seconds apart.
C14_HeartbeatEveryInterval ==
    [][TimersPass =>
         IF lastBeat' # lastBeat
           THEN /\ lastBeat' - last_status_time >= 300
                /\ lastBeat' - lastBeat >= 300
                /\ last_status_time' >= lastBeat'
           ELSE /\ now' - last_status_time < 300
                /\ last_status_time' = last_status_time]_vars

\* a second heartbeat has been emitted although the subprocess never wrote
C14_Witness ==
    /\ lastBeat >= 600
    /\ written = 0
    /\ procState = "running"


\* the phases of main, in the order of lines 131-152
PhaseOrder == <<"kickstart", "disk", "remaster", "install", "boot", "configure">>

\* the phase a failure belongs to
PhaseOf(f) == IF f \in {"launch", "qemu_cmd"} THEN "install" ELSE f

\* the failures after which the pipeline is to stop
AbortOnFailure == {"disk", "remaster", "launch", "install"}

MainFinished == pc \in {"all_done", "main_raised"}

\* C16: once the post-install VM has been started it is shut down before main
\* ends, whatever configure_system did (all steps succeeded, some failed, the
\* connection was never made, or an exception left it): the first signal is
\* the termination request, the wait follows it, the kill is sent exactly when
\* the wait timed out, and at the end of main the VM is not running.
C16_VmAlwaysShutDown ==
    /\ vmWait # "none" => (vmSignals # <<>> /\ vmSignals[1] = "terminate")
    /\ pc = "vm_wait" => vmSignals = <<"terminate">>
    /\ pc = "vm_kill" => (vmSignals = <<"terminate">> /\ vmWait = "timeout")
    /\ (pc = "finally_end" \/ (MainFinished /\ vmState # "none")) =>
          /\ vmState = "exited"
          /\ vmWait \in {"returned", "timeout"}
          /\ vmWait = "timeout" => vmSignals = <<"terminate", "kill">>
          /\ vmWait = "returned" => vmSignals = <<"terminate">>

\* configure_system raised, the VM outlived the wait and was killed, main has
\* ended on the exception
C16_Witness ==
    /\ pc = "main_raised"
    /\ exc # "none"
    /\ vmState = "exited"
    /\ vmWait = "timeout"
    /\ vmSignals = <<"terminate", "kill">>


\* C17: execute_command returns True and reports [Success] exactly when the
\* command's exit status is 0; for every other status it returns False and
\* reports [Error]; without an established session it returns False and has
\* sent nothing.  Checked under SpecExec, where the call is made with and
\* without a session.
C17_SuccessIffStatusZero ==
    execRet # <<>> =>
       IF ssh_client = "None"
         THEN /\ execRet = <<FALSE>>
              /\ report = "not connected"
              /\ issued = <<>>
              /\ running = {}
              /\ chan_status = <<>>
         ELSE /\ chan_status # <<>>
              /\ execRet = <<TRUE>> <=> chan_status = <<0>>
              /\ report = "Success" <=> chan_status = <<0>>
              /\ report = "Error" <=> chan_status # <<0>>

\* a command that exited with status 1 has been reported as an error
C17_Witness ==
    /\ ssh_client = "connected"
    /\ chan_status = <<1>>
    /\ execRet = <<FALSE>>
    /\ report = "Error"


\* run_install is over: it has called sys.exit or returned to main
RunInstallOver == pc \in {"sys_exit", "start_vm"}

\* C18: under fair scheduling, once the install subprocess has exited,
\* run_install eventually leaves its loop and ends (sys.exit or return) with
\* the returncode it read being that exit code, whatever was written and
\* whether or not the diagnostic capture was triggered or was under way.
C18_ExitEndsRunInstall ==
    /\ (procState = "exited") ~> (RunInstallOver /\ returncode = procExit)
    /\ [](pc = "mon_after" => (procState = "exited" /\ returncode = procExit))

\* the capture had been triggered, the subprocess exited with 2, and run_install
\* has ended with that code
C18_Witness ==
    /\ pc = "sys_exit"
    /\ snapLog # <<>>
    /\ procExit = <<2>>
    /\ returncode = <<2>>
    /\ exitStatus = <<2>>


\* the steps that end the capture or that a timeout bounds: check_call returns,
\* ssh's connect phase ends within ConnectTimeout, the session is cut with the
\* subprocess that forwards it.  The end of the remote commands is not among them.
BoundedCaptureStep ==
    \/ DebugSnapshot
    \/ SshConnectFails
    \/ SshConnected
    \/ SshDropped

\* C19 as stated: the diagnostic capture is of bounded duration: in every state
\* in which it is under way it is about to return, or it is in a wait that a
\* timeout ends, so that it cannot stall the monitor loop for good (not even
\* when the session is made and the remote commands do not finish).
C19_CaptureCannotStall ==
    pc = "debug_snapshot" => ENABLED BoundedCaptureStep

\* C20 as stated: when run_install leaves its loop everything the subprocess
\* wrote has been relayed, once and in order, and nothing unread is left in the
\* pipe.
C20_AllOutputRelayed ==
    pc = "mon_after" =>
       /\ pipe = <<>>
       /\ sink = [k \in 1..written |-> k]


\* a step of the remote command or of execute_command's wait and read
ExecWaitStep ==
    \/ RemoteWrite
    \/ RemoteExit
    \/ ExecCollect
    \/ ExecDecodeRaises

\* C21 as stated: however much the remote command writes, execute_command's wait
\* for the exit status is never stuck with the command stuck on a full channel:
\* while it waits, the command can write or exit, or the wait can end.
C21_WaitNeverBlocked ==
    pc = "exec_wait" => ENABLED ExecWaitStep


\* line k of menu m lies inside an install entry: after a menuentry line that
\* mentions install, with no closing brace at the start of a line and no other
\* menuentry line from there up to line k
InsideInstall(m, k) ==
    \E j \in 1..(k - 1) :
        /\ Contains(m[j], "menuentry")
        /\ MentionsInstall(m[j])
        /\ \A h \in (j + 1)..k :
              ~StartsWith(m[h], "}") /\ ~Contains(m[h], "menuentry")

\* the latest patch appended the kickstart parameters to line k
KsAppended(k) ==
    /\ Len(grub[k]) = Len(grubPrev[k]) + Len(kickstart_arg)
    /\ SubSeq(grub[k], Len(grubPrev[k]) + 1, Len(grub[k])) = kickstart_arg

\* the parameters are appended only to linux lines inside an install entry that
\* do not contain inst.ks
AppendedOnlyInInstall ==
    \A k \in 1..Len(grub) :
        KsAppended(k) => /\ StartsWith(grubPrev[k], "linux")
                         /\ InsideInstall(grubPrev, k)
                         /\ ~HasInstKs(grubPrev[k])

\* a second patch leaves every linux line as the first one wrote it
RepatchKeepsLinux ==
    grubPasses >= 2 =>
        \A k \in 1..Len(grub) :
            StartsWith(grubPrev[k], "linux") => grub[k] = grubPrev[k]

\* outside install entries a line is kept, or is the fixed timeout or default line
OutsideOnlySetRewrites ==
    \A k \in 1..Len(grub) :
        ~InsideInstall(grubPrev, k) =>
            \/ grub[k] = grubPrev[k]
            \/ /\ StartsWith(grubPrev[k], "set timeout=")
               /\ grub[k] = <<[w |-> "set timeout=", val |-> "1", path |-> ""]>>
            \/ /\ StartsWith(grubPrev[k], "set default=")
               /\ grub[k] = <<[w |-> "set default=", val |-> "0", path |-> ""]>>

\* C22 as stated: in the patch of grub.cfg the kickstart parameters are appended
\* only to linux lines inside an install entry and never to a line that contains
\* inst.ks, so that patching a patched menu changes no linux line again, and
\* lines outside install entries change only by the timeout and default rewrites.
\* Checked under SpecGrub, over every menu of at most MaxLines lines.
C22_PatchOnlyInstallLinuxOnce ==
    grubPasses >= 1 =>
        /\ Len(grub) = Len(grubPrev)
        /\ AppendedOnlyInInstall
        /\ RepatchKeepsLinux
        /\ OutsideOnlySetRewrites

====
